---- MODULE Spec2Model ----
(***************************************************************************)
(* The napari NU-Net panel (src/src/napari_nunet/_widget.py) as a state    *)
(* machine: the magicgui widget nunet_plugin, the attributes hung on       *)
(* nunet_plugin_wrapper, the change handlers, and one invocation of the    *)
(* run action (nunet_plugin -> weighted_sum -> run_nunet -> per-plane      *)
(* grayscale_nunet) taken step by step.                                    *)
(*                                                                         *)
(* Units.  Slider values and model keys (sw) are integers counted in       *)
(* slider steps (one unit = slider.step = 0.5).  A weight is a fraction    *)
(* <<num, den>>.  The float `progress` of run_nunet is the exact fraction  *)
(* progress_num / nb_images, with the rounding of the float accumulation   *)
(* a nondeterministic choice where the exact value is an integer.          *)
(*                                                                         *)
(* An ndarray is its layout: a sequence of <<axis id, size>>, the axis id  *)
(* being the position of the axis in the input (0 for an inserted axis).   *)
(***************************************************************************)
EXTENDS Integers, Sequences, FiniteSets, TLC

VARIABLES
    nunet_plugin,          \* the widget: image, axes, call_button, progressbar, info_label, slider, run_device
    nunet_plugin_wrapper,  \* with_cuda, load_on_launch, all_models, empty_layer_list
    env,                   \* outside the program: cuda_available, models_folder
    pc,                    \* position of the run action: idle, weighted_sum, run_nunet, loop, except, else
    sw_list,               \* nunet_plugin's local sw_list
    plan,                  \* weighted_sum's locals: the tuple load_weights returned
    pass,                  \* weighted_sum: which run_nunet call is active (1 or 2)
    outs,                  \* weighted_sum: outputs of the finished run_nunet calls
    nu_net,                \* run_nunet: the model of this pass
    img5,                  \* run_nunet: img after img_reshape_axes (canonical TCZYX layout)
    idx,                   \* run_nunet: loop indices <<i, j, k>>
    progress_num,          \* run_nunet: progress * nb_images
    img_output,            \* run_nunet: the output buffer, plane -> value
    image_output,          \* nunet_plugin: its local image_output
    outcome,               \* how the last invocation of nunet_plugin ended
    error,                 \* the exception in flight or last caught
    pb_writes,             \* history: values assigned to progressbar.value in this run
    planes_log,            \* history: grayscale_nunet calls of the current pass, in order
    passes_log,            \* history: keys of the run_nunet calls of this run, in order
    device_changed,        \* history: change_device has run at least once
    event                  \* history: the handler or step that ran last

vars == <<nunet_plugin, nunet_plugin_wrapper, env, pc, sw_list, plan, pass, outs,
          nu_net, img5, idx, progress_num, img_output, image_output, outcome, error,
          pb_writes, planes_log, passes_log, device_changed, event>>

runVars == <<pc, sw_list, plan, pass, outs, nu_net, img5, idx, progress_num,
             img_output, image_output, outcome, error, pb_writes, planes_log,
             passes_log>>

----------------------------------------------------------------------------
(* Bounds of the model *)

\* largest size of one axis of an input image
MaxDim == 2
\* largest slider position (in slider steps) drawn for a run
MaxSlider == 4
\* largest model key (in slider steps) drawn for a registry
MaxKey == 3
\* largest number of planes of a stack drawn for a run
MaxPlanes == 6

----------------------------------------------------------------------------
(* Values *)

None == "None"
\* Python's None where a model key (sw1, sw2) is expected
NoKey == -1

CPU == "CPU"
GPU == "GPU (recommended)"
DeviceChoices == {CPU, GPU}

\* canonical axis order, "Axes of the image in format TCZYX"
Canon == <<"T", "C", "Z", "Y", "X">>
Letters == {"T", "C", "Z", "Y", "X"}

Range(s) == {s[n] : n \in DOMAIN s}
IsInjective(s) == \A a, b \in DOMAIN s : s[a] = s[b] => a = b
Max(S) == CHOOSE x \in S : \A y \in S : y <= x
Min(S) == CHOOSE x \in S : \A y \in S : x <= y
IndexOf(s, x) == CHOOSE n \in DOMAIN s : s[n] = x

RECURSIVE SortedSeq(_)
\* list(keys); .sort()
SortedSeq(S) == IF S = {} THEN <<>> ELSE <<Min(S)>> \o SortedSeq(S \ {Min(S)})

\* the ndarray of a layer with the given shape
ndarray(shape) == [p \in 1..Len(shape) |-> <<p, shape[p]>>]

----------------------------------------------------------------------------
(* img_utils (imported by _widget.py, line 16) *)

\* an axes string is valid for an array of the given rank
ValidAxes(axes, rank) ==
    /\ Len(axes) = rank
    /\ Range(axes) \subseteq Letters
    /\ IsInjective(axes)
    /\ {"Y", "X"} \subseteq Range(axes)

\* check_input_axes(new_axes, data) -> (new_axes, check)
check_input_axes(new_axes, data) ==
    [axes |-> new_axes, check |-> ValidAxes(new_axes, Len(data))]

\* img_reshape_axes(img, axes): the 5-D array in TCZYX order, a size-1 axis
\* inserted for every letter the axes string lacks; raises on invalid axes
img_reshape_axes(img, axes) ==
    IF ~ValidAxes(axes, Len(img)) THEN [raised |-> TRUE, arr |-> <<>>]
    ELSE [raised |-> FALSE,
          arr |-> [c \in 1..5 |-> IF Canon[c] \in Range(axes)
                                  THEN img[IndexOf(axes, Canon[c])]
                                  ELSE <<0, 1>>]]

\* img_postprocess_reshape(img_output, axes): drops the inserted axes and
\* puts the others back in the order the axes string names them
img_postprocess_reshape(arr5, axes) ==
    [p \in 1..Len(axes) |-> arr5[IndexOf(Canon, axes[p])]]

----------------------------------------------------------------------------
(* nunet.utils (imported by _widget.py, line 15) *)

\* load_all_models(models_folder, with_cuda): one model per checkpoint of the
\* folder, loaded on the device asked for
load_all_models(folder, with_cuda) ==
    [k \in folder |-> [sw |-> k, cuda |-> with_cuda, loaded |-> TRUE]]

\* load_weights(slider_value, sw_list) -> (weighted, sw1, sw2, weight1, weight2):
\* the set of tuples it may return; raised marks the call that raises.
\* Fields the blend plan leaves open (the flag of a one-sided plan, the second
\* key of an exact match) are any of their values.
load_weights(v, keys) ==
    LET K == Range(keys)
        los == {k \in K : k <= v}
        his == {k \in K : k >= v}
        tuple(w, s1, s2, w1, w2) ==
            [raised |-> FALSE, weighted |-> w, sw1 |-> s1, sw2 |-> s2,
             weight1 |-> w1, weight2 |-> w2]
    IN  IF v = 0
        THEN {tuple(FALSE, NoKey, NoKey, <<1, 1>>, <<0, 1>>)}
        ELSE IF K = {}
        THEN {[tuple(FALSE, NoKey, NoKey, <<0, 1>>, <<0, 1>>) EXCEPT !.raised = TRUE]}
        ELSE IF los # {} /\ his # {} /\ Max(los) = Min(his)
        THEN {tuple(FALSE, v, s2, <<1, 1>>, <<0, 1>>) : s2 \in {NoKey, v}}
        ELSE IF los = {}
        THEN {tuple(w, NoKey, Min(his), <<0, 1>>, <<1, 1>>) : w \in BOOLEAN}
        ELSE IF his = {}
        THEN {tuple(w, Max(los), NoKey, <<1, 1>>, <<0, 1>>) : w \in BOOLEAN}
        ELSE {tuple(TRUE, Max(los), Min(his),
                    <<Min(his) - v, Min(his) - Max(los)>>,
                    <<v - Max(los), Min(his) - Max(los)>>)}

----------------------------------------------------------------------------
(* Image values *)

EmptyBuf == [x \in {} |-> None]

\* the data of a layer: the input array, no model applied
InputImage(shape) == [kind |-> "input", layout |-> ndarray(shape), terms |-> {}]
\* a local that was never assigned
Unbound == [kind |-> "unbound", layout |-> <<>>, terms |-> {}]
\* Python's None
NoneImage == [kind |-> "none", layout |-> <<>>, terms |-> {}]

NoPlan == [raised |-> FALSE, weighted |-> FALSE, sw1 |-> NoKey, sw2 |-> NoKey,
           weight1 |-> <<0, 1>>, weight2 |-> <<0, 1>>]
NoModel == [sw |-> NoKey, cuda |-> FALSE, loaded |-> FALSE]
NoIndex == <<>>

----------------------------------------------------------------------------
(* grayscale_nunet and run_nunet *)

\* grayscale_nunet(img, model, with_cuda): the clipped, rescaled output of
\* the model on one plane
grayscale_nunet(plane, model, with_cuda) ==
    [plane |-> plane, sw |-> model.sw, model_cuda |-> model.cuda,
     tensor_cuda |-> with_cuda]

\* shape[0]*shape[1]*shape[2]
nb_images(arr5) == arr5[1][2] * arr5[2][2] * arr5[3][2]

\* variant: the loops nested the other way round, i innermost
NextIndexReversed(ijk, arr5) ==
    IF ijk[1] + 1 < arr5[1][2] THEN <<ijk[1] + 1, ijk[2], ijk[3]>>
    ELSE IF ijk[2] + 1 < arr5[2][2] THEN <<0, ijk[2] + 1, ijk[3]>>
    ELSE IF ijk[3] + 1 < arr5[3][2] THEN <<0, 0, ijk[3] + 1>>
    ELSE NoIndex

\* the nested range loops over i, j, k: the indices after <<i, j, k>>, or
\* NoIndex when the loops are over
NextIndex(ijk, arr5) ==
    IF ijk[3] + 1 < arr5[3][2] THEN <<ijk[1], ijk[2], ijk[3] + 1>>
    ELSE IF ijk[2] + 1 < arr5[2][2] THEN <<ijk[1], ijk[2] + 1, 0>>
    ELSE IF ijk[1] + 1 < arr5[1][2] THEN <<ijk[1] + 1, 0, 0>>
    ELSE NoIndex

RECURSIVE OddPart(_)
OddPart(n) == IF n % 2 = 0 THEN OddPart(n \div 2) ELSE n

\* progress_step = 100/nb_images is a binary float without rounding
StepExact(nb) == 100 % OddPart(nb) = 0

\* `if progress > int(progress): progressbar.value = int(progress)` with
\* progress = num/nb: the sequences of values the statement may write.  Where
\* num/nb is no integer the float is none either and its floor is written.
\* Where it is an integer and the step 100/nb is exact, so is the sum and
\* nothing is written; where the step is rounded the accumulated float is the
\* integer, or just above it, or just below it.
ProgressWrites(num, nb) ==
    IF num % nb # 0 THEN {<<num \div nb>>}
    ELSE IF StepExact(nb) THEN {<<>>}
    ELSE {<<>>, <<num \div nb>>, <<(num \div nb) - 1>>}

\* variant: run_nunet returning the 5-D buffer as it is
run_nunet_return_5d(arr5, axes, model, buf) ==
    [layout |-> arr5, sw |-> model.sw, data |-> buf]

\* run_nunet's return value: img_postprocess_reshape(img_output, axes)
run_nunet_return(arr5, axes, model, buf) ==
    [layout |-> img_postprocess_reshape(arr5, axes), sw |-> model.sw, data |-> buf]

----------------------------------------------------------------------------
(* weighted_sum *)

\* the keys weighted_sum runs run_nunet with, in order
weighted_sum_passes(lw) ==
    IF ~lw.weighted \/ lw.sw1 = NoKey \/ lw.sw2 = NoKey
    THEN <<IF lw.sw1 # NoKey THEN lw.sw1 ELSE lw.sw2>>
    ELSE <<lw.sw1, lw.sw2>>

\* variant: weight2*img_out1 + weight1*img_out2
weighted_sum_swapped(lw, o) ==
    IF ~lw.weighted \/ lw.sw1 = NoKey \/ lw.sw2 = NoKey
    THEN [kind |-> "output", layout |-> o[1].layout,
          terms |-> {[weight |-> <<1, 1>>, sw |-> o[1].sw, data |-> o[1].data]}]
    ELSE [kind |-> "output", layout |-> o[1].layout,
          terms |-> {[weight |-> lw.weight2, sw |-> o[1].sw, data |-> o[1].data],
                     [weight |-> lw.weight1, sw |-> o[2].sw, data |-> o[2].data]}]

\* img_output: the one run_nunet result, or weight1*img_out1 + weight2*img_out2
weighted_sum_output(lw, o) ==
    IF ~lw.weighted \/ lw.sw1 = NoKey \/ lw.sw2 = NoKey
    THEN [kind |-> "output", layout |-> o[1].layout,
          terms |-> {[weight |-> <<1, 1>>, sw |-> o[1].sw, data |-> o[1].data]}]
    ELSE [kind |-> "output", layout |-> o[1].layout,
          terms |-> {[weight |-> lw.weight1, sw |-> o[1].sw, data |-> o[1].data],
                     [weight |-> lw.weight2, sw |-> o[2].sw, data |-> o[2].data]}]

\* variant: weighted_sum without the test of the slider against 0.0
weighted_sum_no_identity(slider_value) == FALSE

\* `if slider_value == 0.0: return img`
weighted_sum_identity(slider_value) == slider_value = 0

----------------------------------------------------------------------------
(* The layers, texts and folders of the panel's events *)

\* slider value=5.0, in slider steps of 0.5
SliderDefault == 10

NoLayer == [present |-> FALSE, data |-> <<>>]
Layer(shape) == [present |-> TRUE, data |-> shape]

\* the layers the viewer may hold: a plane and a stack of MaxDim planes
GuiLayers == {Layer(<<1, 1>>), Layer(<<MaxDim, 1, 1>>)}
\* the texts typed into the axes field or guessed by detect_axes
AxesTexts == {<<>>, <<"Y", "X">>, <<"Y", "Y">>, <<"Z", "Y", "X">>, <<"X", "Y", "Q">>}
\* the contents models_folder may have
FolderChoices == {{}, {1, MaxKey}}
\* the positions the user moves the slider to
GuiSliders == {0, 2, SliderDefault}

----------------------------------------------------------------------------
(* The widget and the wrapper attributes after module load *)

\* the magicgui declaration and the customization that follows it
WidgetAtLoad ==
    [image |-> NoLayer, axes |-> <<>>, axes_label |-> "Axes", axes_maxlen |-> 5,
     axes_style |-> "",
     call_button_enabled |-> TRUE, call_button_text |-> "Run NU-Net",
     call_button_style |-> "",
     progressbar_visible |-> FALSE, progressbar_value |-> 0,
     info_label_visible |-> FALSE, info_label_label |-> "info label",
     info_label_value |-> "", info_label_style |-> "bold",
     slider |-> SliderDefault, run_device |-> GPU]

\* the setattr calls on nunet_plugin_wrapper at module load
WrapperAtLoad(cuda_available, folder) ==
    [with_cuda |-> cuda_available, load_on_launch |-> TRUE,
     all_models |-> load_all_models(folder, cuda_available),
     empty_layer_list |-> TRUE]

NoOutcome == [kind |-> "none", value |-> NoneImage, error |-> None]

RunIdle ==
    /\ pc = "idle"
    /\ sw_list = <<>>
    /\ plan = NoPlan
    /\ pass = 0
    /\ outs = <<>>
    /\ nu_net = NoModel
    /\ img5 = <<>>
    /\ idx = NoIndex
    /\ progress_num = 0
    /\ img_output = EmptyBuf
    /\ image_output = Unbound
    /\ outcome = NoOutcome
    /\ error = None
    /\ pb_writes = <<>>
    /\ planes_log = <<>>
    /\ passes_log = <<>>

----------------------------------------------------------------------------
(* The run action nunet_plugin, step by step *)

\* the frames of weighted_sum and run_nunet are gone
DropFrames ==
    /\ plan' = NoPlan
    /\ pass' = 0
    /\ outs' = <<>>
    /\ nu_net' = NoModel
    /\ img5' = <<>>
    /\ idx' = NoIndex
    /\ progress_num' = 0
    /\ img_output' = EmptyBuf

\* an exception leaves weighted_sum for nunet_plugin's except clause
RaiseTo(kind) ==
    /\ DropFrames
    /\ error' = kind
    /\ pc' = "except"

\* `return image_output` of nunet_plugin: reading a local that was never
\* assigned raises UnboundLocalError
nunet_plugin_return(local) ==
    IF local.kind = "unbound"
    THEN [kind |-> "raised", value |-> NoneImage, error |-> "UnboundLocalError"]
    ELSE [kind |-> "returned", value |-> local, error |-> None]

\* nunet_plugin up to the call of weighted_sum; with no image the function
\* falls off its end and returns None
nunet_plugin_call ==
    /\ pc = "idle"
    /\ nunet_plugin' = [nunet_plugin EXCEPT !.progressbar_visible = TRUE,
                                            !.progressbar_value = 0,
                                            !.info_label_visible = FALSE]
    /\ pb_writes' = <<0>>
    /\ planes_log' = <<>>
    /\ passes_log' = <<>>
    /\ sw_list' = IF nunet_plugin.image.present
                  THEN SortedSeq(DOMAIN nunet_plugin_wrapper.all_models)
                  ELSE <<>>
    /\ image_output' = Unbound
    /\ error' = None
    /\ DropFrames
    /\ IF nunet_plugin.image.present
       THEN /\ pc' = "weighted_sum"
            /\ outcome' = [kind |-> "running", value |-> NoneImage, error |-> None]
       ELSE /\ pc' = "idle"
            /\ outcome' = [kind |-> "returned", value |-> NoneImage, error |-> None]
    /\ event' = "nunet_plugin"
    /\ UNCHANGED <<nunet_plugin_wrapper, env, device_changed>>

\* weighted_sum up to its first run_nunet call
weighted_sum_call ==
    /\ pc = "weighted_sum"
    /\ \E lw \in load_weights(nunet_plugin.slider, sw_list) :
         IF lw.raised
         THEN /\ RaiseTo("NoModelAvailableError")
              /\ UNCHANGED image_output
         ELSE IF weighted_sum_identity(nunet_plugin.slider)
         THEN /\ DropFrames
              /\ image_output' = InputImage(nunet_plugin.image.data)
              /\ pc' = "else"
              /\ UNCHANGED error
         ELSE /\ plan' = lw
              /\ pass' = 1
              /\ pc' = "run_nunet"
              /\ UNCHANGED <<outs, nu_net, img5, idx, progress_num, img_output,
                             image_output, error>>
    /\ event' = "weighted_sum"
    /\ UNCHANGED <<nunet_plugin, nunet_plugin_wrapper, env, device_changed, sw_list,
                   outcome, pb_writes, planes_log, passes_log>>

\* all_models[sw] and run_nunet up to its loops
run_nunet_call ==
    /\ pc = "run_nunet"
    /\ LET sw == weighted_sum_passes(plan)[pass]
           all_models == nunet_plugin_wrapper.all_models
           r == img_reshape_axes(ndarray(nunet_plugin.image.data), nunet_plugin.axes)
       IN  IF sw \notin DOMAIN all_models
           THEN /\ RaiseTo("KeyError")
                /\ UNCHANGED <<planes_log, passes_log>>
           ELSE /\ passes_log' = Append(passes_log, sw)
                /\ planes_log' = <<>>
                /\ IF r.raised
                   THEN RaiseTo("InvalidAxesError")
                   ELSE IF nb_images(r.arr) = 0
                   THEN RaiseTo("ZeroDivisionError")
                   ELSE /\ nu_net' = all_models[sw]
                        /\ img5' = r.arr
                        /\ idx' = <<0, 0, 0>>
                        /\ progress_num' = 0
                        /\ img_output' = EmptyBuf
                        /\ pc' = "loop"
                        /\ UNCHANGED <<plan, pass, outs, error>>
    /\ event' = "run_nunet"
    /\ UNCHANGED <<nunet_plugin, nunet_plugin_wrapper, env, device_changed, sw_list,
                   image_output, outcome, pb_writes>>

\* one iteration of the loops of run_nunet
run_nunet_plane ==
    /\ pc = "loop"
    /\ LET nb == nb_images(img5)
           out == grayscale_nunet(idx, nu_net, nunet_plugin_wrapper.with_cuda)
       IN  /\ img_output' = [p \in DOMAIN img_output \cup {idx} |->
                                IF p = idx THEN out ELSE img_output[p]]
           /\ planes_log' = Append(planes_log, idx)
           /\ progress_num' = progress_num + 100
           /\ \E w \in ProgressWrites(progress_num + 100, nb) :
                /\ pb_writes' = pb_writes \o w
                /\ nunet_plugin' =
                     IF w = <<>> THEN nunet_plugin
                     ELSE [nunet_plugin EXCEPT !.progressbar_value = w[1]]
           /\ idx' = NextIndex(idx, img5)
           /\ pc' = IF NextIndex(idx, img5) = NoIndex THEN "return" ELSE "loop"
    /\ event' = "run_nunet_plane"
    /\ UNCHANGED <<nunet_plugin_wrapper, env, device_changed, sw_list, plan, pass,
                   outs, nu_net, img5, image_output, outcome, error, passes_log>>

\* the model call of grayscale_nunet fails
grayscale_nunet_raises ==
    /\ pc = "loop"
    /\ RaiseTo("InferenceError")
    /\ event' = "grayscale_nunet"
    /\ UNCHANGED <<nunet_plugin, nunet_plugin_wrapper, env, device_changed, sw_list,
                   image_output, outcome, pb_writes, planes_log, passes_log>>

\* run_nunet returns; weighted_sum calls it again or returns its img_output
run_nunet_exit ==
    /\ pc = "return"
    /\ LET o == Append(outs, run_nunet_return(img5, nunet_plugin.axes, nu_net, img_output))
       IN  IF pass < Len(weighted_sum_passes(plan))
           THEN /\ outs' = o
                /\ pass' = pass + 1
                /\ pc' = "run_nunet"
                /\ UNCHANGED <<plan, nu_net, img5, idx, progress_num, img_output,
                               image_output>>
           ELSE /\ image_output' = weighted_sum_output(plan, o)
                /\ DropFrames
                /\ pc' = "else"
    /\ event' = "run_nunet_return"
    /\ UNCHANGED <<nunet_plugin, nunet_plugin_wrapper, env, device_changed, sw_list,
                   outcome, error, pb_writes, planes_log, passes_log>>

WrongAxes == "Wrong Axis Specification : please fix them and retry"

\* variant: an except clause that leaves the progress bar shown
ErrorStatusBarShown(p) ==
    [p EXCEPT !.info_label_label = "Error",
              !.info_label_visible = TRUE,
              !.info_label_style = "bold lightcoral",
              !.info_label_value = WrongAxes]

\* the widget after the assignments of the except clause
ErrorStatus(p) ==
    [p EXCEPT !.info_label_label = "Error",
              !.progressbar_visible = FALSE,
              !.info_label_visible = TRUE,
              !.info_label_style = "bold lightcoral",
              !.info_label_value = WrongAxes]

\* the widget after the assignments of the else clause
SuccessStatus(p) ==
    [p EXCEPT !.progressbar_value = 100,
              !.info_label_visible = TRUE,
              !.info_label_label = "Success",
              !.info_label_style = "bold lightgreen",
              !.info_label_value = "Executed in t seconds"]

\* the except clause of nunet_plugin and the return after it
nunet_plugin_except ==
    /\ pc = "except"
    /\ nunet_plugin' = ErrorStatus(nunet_plugin)
    /\ outcome' = nunet_plugin_return(image_output)
    /\ image_output' = Unbound
    /\ sw_list' = <<>>
    /\ pc' = "idle"
    /\ event' = "nunet_plugin_except"
    /\ UNCHANGED <<nunet_plugin_wrapper, env, device_changed, plan, pass, outs,
                   nu_net, img5, idx, progress_num, img_output, error,
                   pb_writes, planes_log, passes_log>>

\* the else clause of nunet_plugin and the return after it
nunet_plugin_else ==
    /\ pc = "else"
    /\ nunet_plugin' = SuccessStatus(nunet_plugin)
    /\ pb_writes' = Append(pb_writes, 100)
    /\ outcome' = nunet_plugin_return(image_output)
    /\ image_output' = Unbound
    /\ sw_list' = <<>>
    /\ pc' = "idle"
    /\ event' = "nunet_plugin_else"
    /\ UNCHANGED <<nunet_plugin_wrapper, env, device_changed, plan, pass, outs,
                   nu_net, img5, idx, progress_num, img_output, error,
                   planes_log, passes_log>>

\* the steps of a run once nunet_plugin was called
RunStep ==
    \/ weighted_sum_call
    \/ run_nunet_call
    \/ run_nunet_plane
    \/ grayscale_nunet_raises
    \/ run_nunet_exit
    \/ nunet_plugin_except
    \/ nunet_plugin_else

----------------------------------------------------------------------------
(* Runs of the pipeline on drawn inputs *)

\* one call of nunet_plugin
NextRun ==
    \/ /\ outcome.kind = "none"
       /\ nunet_plugin_call
    \/ RunStep

\* the panel with the given widget values and registry, ready for one call
InitRun(im, ax, v, cuda, folder) ==
    /\ nunet_plugin = [WidgetAtLoad EXCEPT !.image = im, !.axes = ax, !.slider = v]
    /\ env = [cuda_available |-> cuda, models_folder |-> folder]
    /\ nunet_plugin_wrapper =
         [WrapperAtLoad(cuda, folder) EXCEPT !.empty_layer_list = ~im.present]
    /\ RunIdle
    /\ device_changed = FALSE
    /\ event = "load"

\* stacks of 1 to MaxPlanes planes, and no image
BlendLayers == {Layer(<<z, 1, 1>>) : z \in 1..MaxPlanes} \cup {NoLayer}
BlendAxes == {<<"Z", "Y", "X">>, <<"Z", "Y", "Y">>}

\* any plane count, slider value and registry
InitBlend ==
    \E im \in BlendLayers, ax \in BlendAxes, v \in 0..MaxSlider,
       cuda \in BOOLEAN, folder \in SUBSET (0..MaxKey) :
         InitRun(im, ax, v, cuda, folder)

SpecBlend == InitBlend /\ [][NextRun]_vars

\* the shapes of rank 2 to 5 with every size in 1..MaxDim
Shapes == UNION {[1..r -> 1..MaxDim] : r \in 2..5}
\* every valid axes string of a rank, and some invalid ones
AxesOf(r) == {a \in [1..r -> Letters] : ValidAxes(a, r)}
             \cup {<<"Y", "X", "Q">>, <<"Y", "Y">>, <<"Z", "Y">>, <<>>}
\* the planes are of size 1 or MaxDim each way; the loops of run_nunet do
\* not read the plane's size
PlaneSizes(sh, ax) ==
    \A q \in DOMAIN sh \cap DOMAIN ax : ax[q] \in {"Y", "X"} => sh[q] \in {1, MaxDim}

\* any shape and axes string, one model at the slider's value
InitAxes ==
    \E sh \in Shapes : \E ax \in AxesOf(Len(sh)) :
        /\ PlaneSizes(sh, ax)
        /\ InitRun(Layer(sh), ax, SliderDefault, TRUE, {SliderDefault})

SpecAxes == InitAxes /\ [][NextRun]_vars

----------------------------------------------------------------------------
(* The change handlers.  st = [p |-> the widget, w |-> the wrapper] *)

\* change_axes(new_axes).  With empty_layer_list False and no image selected,
\* nunet_plugin.image.value.data raises and the handler ends there.
change_axes(st, new_axes) ==
    LET p0 == [st.p EXCEPT !.info_label_visible = FALSE]
    IN  IF ~st.w.empty_layer_list
        THEN IF ~p0.image.present
             THEN [st EXCEPT !.p = p0]
             ELSE LET r == check_input_axes(new_axes, p0.image.data)
                      p1 == [p0 EXCEPT !.axes = r.axes, !.axes_label = "Axes"]
                  IN  IF r.check
                      THEN [st EXCEPT !.p = [p1 EXCEPT !.call_button_enabled = TRUE,
                                                       !.call_button_text = "Run NU-Net",
                                                       !.call_button_style = "",
                                                       !.axes_style = ""]]
                      ELSE [st EXCEPT !.p = [p1 EXCEPT !.call_button_enabled = FALSE,
                                                       !.axes_style = "lightcoral",
                                                       !.call_button_style = "lightcoral",
                                                       !.call_button_text = "Incorrect Axes"]]
        ELSE [st EXCEPT !.p = [p0 EXCEPT !.call_button_style = "lightcoral",
                                         !.call_button_text = "No Image Selected"]]

\* an assignment to the axes text (axes.value = ..., setText, the user's
\* typing): axes.changed fires when the text changes
axes_set(st, text) ==
    IF text = st.p.axes THEN st
    ELSE change_axes([st EXCEPT !.p.axes = text], text)

\* the first n letters of a text (setMaxLength cuts a longer text)
Truncate(text, n) == IF Len(text) > n THEN SubSeq(text, 1, n) ELSE text

\* detect_axes(data): the strings it may guess
detect_axes(data) == {a \in AxesTexts : Len(a) = Len(data)}

\* change_image(new_img), the image widget holding new_img already
change_image(st, new_img, guess) ==
    LET p0 == [st.p EXCEPT !.info_label_visible = FALSE,
                           !.progressbar_visible = FALSE]
        s0 == [st EXCEPT !.p = p0]
    IN  IF new_img.present
        THEN LET s1 == [s0 EXCEPT !.w.empty_layer_list = FALSE,
                                  !.p.axes_maxlen = Len(new_img.data)]
                 s2 == axes_set(s1, Truncate(s1.p.axes, Len(new_img.data)))
                 s3 == axes_set(s2, guess)
             IN  [s3 EXCEPT !.p.axes_label = "Axes (guessed)"]
        ELSE axes_set(s0, <<>>)

\* img_layer_currIndexChanged(val)
img_layer_currIndexChanged(st, val) ==
    IF val = -1
    THEN LET s1 == axes_set([st EXCEPT !.w.empty_layer_list = TRUE], <<>>)
         IN  [s1 EXCEPT !.p.axes_label = "Axes", !.p.progressbar_visible = FALSE]
    ELSE st

\* variant: change_device adding the new models to the registry it has
change_device_merging(w, new_device, folder) ==
    LET cuda == IF new_device = CPU THEN FALSE
                ELSE IF new_device = GPU THEN TRUE
                ELSE w.with_cuda
    IN  [w EXCEPT !.with_cuda = cuda,
                  !.all_models = w.all_models @@ load_all_models(folder, cuda)]

\* change_device(new_device)
change_device(w, new_device, folder) ==
    LET cuda == IF new_device = CPU THEN FALSE
                ELSE IF new_device = GPU THEN TRUE
                ELSE w.with_cuda
    IN  [w EXCEPT !.with_cuda = cuda,
                  !.all_models = load_all_models(folder, cuda)]

\* fixed_slider(new_value), in slider steps: new_value % 1 >= step/2
fixed_slider(new_value) ==
    IF new_value % 2 >= 1 THEN (new_value \div 2) * 2 + 1
    ELSE (new_value \div 2) * 2

----------------------------------------------------------------------------
(* The events of the panel *)

Now == [p |-> nunet_plugin, w |-> nunet_plugin_wrapper]

Becomes(st) ==
    /\ nunet_plugin' = st.p
    /\ nunet_plugin_wrapper' = st.w

\* the image combo box gets another layer: image.changed fires, and
\* currentIndexChanged with the layer's index
image_selected ==
    /\ pc = "idle"
    /\ \E layer \in GuiLayers :
         /\ layer # nunet_plugin.image
         /\ \E guess \in detect_axes(layer.data) :
              Becomes(img_layer_currIndexChanged(
                          change_image([Now EXCEPT !.p.image = layer], layer, guess), 0))
    /\ event' = "change_image"
    /\ UNCHANGED <<env, device_changed, runVars>>

\* the layer list is emptied: the combo box holds None, image.changed and
\* currentIndexChanged(-1) fire, in either order
layers_emptied ==
    /\ pc = "idle"
    /\ nunet_plugin.image.present
    /\ LET s0 == [Now EXCEPT !.p.image = NoLayer]
       IN  \/ Becomes(img_layer_currIndexChanged(change_image(s0, NoLayer, <<>>), -1))
           \/ Becomes(change_image(img_layer_currIndexChanged(s0, -1), NoLayer, <<>>))
    /\ event' = "img_layer_currIndexChanged"
    /\ UNCHANGED <<env, device_changed, runVars>>

\* the user edits the axes text
axes_edited ==
    /\ pc = "idle"
    /\ \E text \in AxesTexts :
         /\ Len(text) <= nunet_plugin.axes_maxlen
         /\ text # nunet_plugin.axes
         /\ Becomes(axes_set(Now, text))
    /\ event' = "change_axes"
    /\ UNCHANGED <<env, device_changed, runVars>>

\* the user picks the other device
device_selected ==
    /\ pc = "idle"
    /\ \E d \in DeviceChoices :
         /\ d # nunet_plugin.run_device
         /\ nunet_plugin' = [nunet_plugin EXCEPT !.run_device = d]
         /\ nunet_plugin_wrapper' =
              change_device(nunet_plugin_wrapper, d, env.models_folder)
    /\ device_changed' = TRUE
    /\ event' = "change_device"
    /\ UNCHANGED <<env, runVars>>

\* the user moves the slider
slider_moved ==
    /\ pc = "idle"
    /\ \E v \in GuiSliders :
         /\ v # nunet_plugin.slider
         /\ nunet_plugin' = [nunet_plugin EXCEPT !.slider = fixed_slider(v)]
    /\ event' = "fixed_slider"
    /\ UNCHANGED <<nunet_plugin_wrapper, env, device_changed, runVars>>

\* checkpoints are added to or removed from models_folder
models_folder_changed ==
    /\ pc = "idle"
    /\ \E folder \in FolderChoices :
         /\ folder # env.models_folder
         /\ env' = [env EXCEPT !.models_folder = folder]
    /\ event' = "models_folder"
    /\ UNCHANGED <<nunet_plugin, nunet_plugin_wrapper, device_changed, runVars>>

\* the user clicks the call button
call_button_clicked ==
    /\ nunet_plugin.call_button_enabled
    /\ nunet_plugin_call

----------------------------------------------------------------------------
(* The plugin from module load on *)

Init ==
    /\ \E cuda \in BOOLEAN, folder \in FolderChoices :
         /\ env = [cuda_available |-> cuda, models_folder |-> folder]
         /\ nunet_plugin_wrapper = WrapperAtLoad(cuda, folder)
    /\ nunet_plugin = WidgetAtLoad
    /\ RunIdle
    /\ device_changed = FALSE
    /\ event = "load"

Next ==
    \/ image_selected
    \/ layers_emptied
    \/ axes_edited
    \/ device_selected
    \/ slider_moved
    \/ models_folder_changed
    \/ call_button_clicked
    \/ RunStep

Spec == Init /\ [][Next]_vars

----------------------------------------------------------------------------
(* Properties *)

ImageSelected == nunet_plugin.image.present
Rank == Len(nunet_plugin.image.data)
\* a call of nunet_plugin has ended
RunEnded == pc = "idle" /\ outcome.kind \notin {"none", "running"}
RunReturnedOutput == RunEnded /\ ImageSelected /\ outcome.kind = "returned"

\* C1: in every reachable state of the plugin the call button is enabled only
\* if an image is selected and the axes text is valid for it.
C1_ButtonEnabledOnlyIfRunnable ==
    nunet_plugin.call_button_enabled
        => (ImageSelected /\ ValidAxes(nunet_plugin.axes, Rank))

\* C2: every value written to the progress bar during one run is in 0..100
\* and the written values never decrease.
C2_ProgressMonotonic ==
    \A a \in DOMAIN pb_writes :
        /\ pb_writes[a] \in 0..100
        /\ \A b \in DOMAIN pb_writes : a < b => pb_writes[a] <= pb_writes[b]

\* C3: a run with an image selected whose pipeline failed, for whatever cause,
\* has ended in the one error state: progress bar hidden, status label shown
\* with label "Error" and the wrong-axis message.
C3_OneErrorState ==
    /\ (pc = "idle" /\ error # None) =>
          /\ event = "nunet_plugin_except"
          /\ ImageSelected
          /\ ~nunet_plugin.progressbar_visible
          /\ nunet_plugin.info_label_visible
          /\ nunet_plugin.info_label_label = "Error"
          /\ nunet_plugin.info_label_value = WrongAxes
          /\ nunet_plugin.info_label_style = "bold lightcoral"
    /\ (error # None) => pc \in {"except", "idle"}

C3_Witness ==
    /\ pc = "idle"
    /\ error = "InferenceError"
    /\ nunet_plugin.info_label_label = "Error"
    /\ Len(planes_log) > 0

\* C4: with the slider at 0 no pass of run_nunet is made and no model is
\* called, whatever the registry and the axes text, and the run returns the
\* input image.
C4_SliderZeroIsIdentity ==
    (ImageSelected /\ nunet_plugin.slider = 0) =>
        /\ passes_log = <<>>
        /\ planes_log = <<>>
        /\ pc \in {"idle", "weighted_sum", "else"}
        /\ error = None
        /\ RunEnded =>
              /\ outcome.kind = "returned"
              /\ outcome.value = InputImage(nunet_plugin.image.data)

C4_Witness ==
    /\ RunEnded
    /\ ImageSelected
    /\ nunet_plugin.slider = 0
    /\ nunet_plugin_wrapper.all_models = EmptyBuf
    /\ nunet_plugin.axes = <<"Z", "Y", "Y">>
    /\ outcome.value.kind = "input"

\* the keys of the registry at or below, and at or above, the slider value
KeysBelow == {k \in DOMAIN nunet_plugin_wrapper.all_models : k <= nunet_plugin.slider}
KeysAbove == {k \in DOMAIN nunet_plugin_wrapper.all_models : k >= nunet_plugin.slider}
TermsOf(value) == {<<t.sw, t.weight>> : t \in value.terms}
\* the term is the output of a pass with the model of its key, on every plane
TermIsPassOf(t) ==
    /\ DOMAIN t.data = {<<0, 0, k>> : k \in 0..(nunet_plugin.image.data[1] - 1)}
    /\ \A q \in DOMAIN t.data : t.data[q].sw = t.sw /\ t.data[q].plane = q

\* C5: a run with a nonzero slider value v that returns an output made one
\* pass with the one defined key (weight 1) when lo = hi or one of lo, hi is
\* missing, and else two passes, on lo and on hi, the output being
\* weight_lo*pass(lo) + weight_hi*pass(hi) with weight_lo = (hi - v)/(hi - lo),
\* weight_hi = 1 - weight_lo, both in [0, 1].
C5_BlendPlan ==
    (RunReturnedOutput /\ nunet_plugin.slider # 0) =>
        LET v == nunet_plugin.slider
        IN  /\ KeysBelow \cup KeysAbove # {}
            /\ \A t \in outcome.value.terms : TermIsPassOf(t)
            /\ IF KeysBelow = {} \/ KeysAbove = {} \/ Max(KeysBelow) = Min(KeysAbove)
               THEN LET key == IF KeysBelow # {} THEN Max(KeysBelow) ELSE Min(KeysAbove)
                    IN  /\ passes_log = <<key>>
                        /\ TermsOf(outcome.value) = {<<key, <<1, 1>>>>}
               ELSE LET lo == Max(KeysBelow)
                        hi == Min(KeysAbove)
                    IN  /\ passes_log = <<lo, hi>>
                        /\ TermsOf(outcome.value) =
                              {<<lo, <<hi - v, hi - lo>>>>, <<hi, <<v - lo, hi - lo>>>>}
                        /\ \A t \in outcome.value.terms :
                              0 <= t.weight[1] /\ t.weight[1] <= t.weight[2]
                        /\ (hi - v) + (v - lo) = hi - lo

C5_Witness ==
    /\ RunReturnedOutput
    /\ nunet_plugin.slider = 1
    /\ DOMAIN nunet_plugin_wrapper.all_models = {0, 3}
    /\ TermsOf(outcome.value) = {<<0, <<2, 3>>>>, <<3, <<1, 3>>>>}

\* C6: a change_device event replaces the registry by the models loaded from
\* the folder for the device chosen, none of the registry it had kept; from
\* the first such event on, the registry and every model a run uses are
\* loaded for the device the radio buttons show.
C6_DeviceChangeReloadsRegistry ==
    /\ [][event' = "change_device" =>
            /\ DOMAIN nunet_plugin_wrapper'.all_models = env.models_folder
            /\ \A k \in env.models_folder :
                  /\ nunet_plugin_wrapper'.all_models[k].sw = k
                  /\ nunet_plugin_wrapper'.all_models[k].cuda
                        = (nunet_plugin'.run_device = GPU)]_vars
    /\ [](device_changed =>
            /\ \A k \in DOMAIN nunet_plugin_wrapper.all_models :
                  nunet_plugin_wrapper.all_models[k].cuda = (nunet_plugin.run_device = GPU)
            /\ pc \in {"loop", "return"} =>
                  /\ nu_net = nunet_plugin_wrapper.all_models[nu_net.sw]
                  /\ \A q \in DOMAIN img_output :
                        img_output[q].model_cuda = (nunet_plugin.run_device = GPU))

C6_Witness ==
    /\ device_changed
    /\ pc = "return"
    /\ nunet_plugin.run_device = CPU
    /\ img_output # EmptyBuf
    /\ \A q \in DOMAIN img_output : ~img_output[q].model_cuda

\* C7: with a valid axes string for an input of rank 2 to 5, run_nunet works
\* on the canonical 5-D TCZYX array, a size-1 axis standing for every letter
\* the string lacks, and the output returned has the axes of the input, each
\* with its size, in the input's order.
C7_ShapeRoundTrip ==
    (ImageSelected /\ ValidAxes(nunet_plugin.axes, Rank)) =>
        /\ error # "InvalidAxesError"
        /\ pc \in {"loop", "return"} =>
              /\ Len(img5) = 5
              /\ \A c \in 1..5 :
                    IF \E q \in 1..Rank : nunet_plugin.axes[q] = Canon[c]
                    THEN \E q \in 1..Rank :
                            /\ nunet_plugin.axes[q] = Canon[c]
                            /\ img5[c] = <<q, nunet_plugin.image.data[q]>>
                    ELSE img5[c] = <<0, 1>>
        /\ RunReturnedOutput =>
              /\ Len(outcome.value.layout) = Rank
              /\ \A q \in 1..Rank :
                    outcome.value.layout[q] = <<q, nunet_plugin.image.data[q]>>

C7_Witness ==
    /\ RunReturnedOutput
    /\ nunet_plugin.axes = <<"X", "T", "Y", "C">>
    /\ nunet_plugin.image.data = <<1, 2, 1, 2>>
    /\ outcome.value.kind = "output"

\* the n-th plane in lexicographic order, T outermost, Z innermost
LexPlane(n, arr5) ==
    << (n - 1) \div (arr5[2][2] * arr5[3][2]),
       ((n - 1) \div arr5[3][2]) % arr5[2][2],
       (n - 1) % arr5[3][2] >>

\* C8: a pass calls the model on the planes in lexicographic order, T
\* outermost and Z innermost, once each and T*C*Z times in all; the result of
\* plane (t, c, z) is at (t, c, z) of the output buffer; the layer's data is
\* not assigned during the run.
C8_PlaneOrder ==
    /\ [](pc \in {"loop", "return"} =>
            /\ \A n \in DOMAIN planes_log : planes_log[n] = LexPlane(n, img5)
            /\ DOMAIN img_output = Range(planes_log)
            /\ \A q \in DOMAIN img_output :
                  img_output[q].plane = q /\ img_output[q].sw = nu_net.sw
            /\ pc = "loop" => Len(planes_log) < nb_images(img5)
            /\ pc = "return" =>
                  /\ Len(planes_log) = nb_images(img5)
                  /\ DOMAIN img_output = (0..(img5[1][2] - 1)) \X (0..(img5[2][2] - 1))
                                            \X (0..(img5[3][2] - 1)))
    /\ [][pc # "idle" => nunet_plugin'.image = nunet_plugin.image]_vars

C8_Witness ==
    /\ pc = "return"
    /\ Len(planes_log) = 8
    /\ planes_log[2] = <<0, 0, 1>>
    /\ planes_log[5] = <<1, 0, 0>>

\* C9: in every reachable state with_cuda is true exactly when the device
\* radio buttons show "GPU (recommended)".
C9_FlagAgreesWithDevice ==
    nunet_plugin_wrapper.with_cuda <=> (nunet_plugin.run_device = GPU)

\* C10: every call of nunet_plugin ends by returning: after a failed pipeline
\* it returns without an image for the viewer, after a successful one it
\* returns the output image.
C10_RunReturns ==
    RunEnded =>
        /\ outcome.kind = "returned"
        /\ (ImageSelected /\ error # None) => outcome.value = NoneImage
        /\ (ImageSelected /\ error = None) => outcome.value.kind \in {"input", "output"}

====
